---- MODULE Spec2Model ----
(***************************************************************************)
(* Control plane of the knowledge-graph service (src/src/app/main.py):     *)
(*   - the per-client admission check check_rate_limit over the TTL cache  *)
(*     rate_limit_storage,                                                 *)
(*   - the streaming session generate_graph_stream_response,               *)
(*   - the verification gate verify_turnstile_token and the handler        *)
(*     stream_generate_knowledge_graph that calls it,                      *)
(*   - the task registry results with its background job process_openai,   *)
(* and the model configuration of src/src/app/models.py.                   *)
(* Time is the cache's timer, counted in whole seconds.                    *)
(***************************************************************************)
EXTENDS Integers, Sequences, FiniteSets, TLC

VARIABLES
    \* ---- admission control ----
    RATE_LIMIT_REQUESTS,  \* main.py:41  requests per window (L)
    RATE_LIMIT_WINDOW,    \* main.py:44  window in seconds (W), the cache's ttl
    rate_limit_storage,   \* main.py:49  TTLCache: key -> [count, expires]
    now,                  \* the timer the TTLCache reads
    ticks,                \* number of clock advances taken so far
    checks,               \* history: per key, the checks since its entry was created
    lastCheck,            \* history: the most recent call of check_rate_limit
    \* ---- streaming session ----
    ERROR_STREAM,         \* main.py:233  the debug environment variable
    script,               \* what the Generation Adapter will do: items, then an ending
    pc,                   \* position of generate_graph_stream_response
    frames,               \* the frames yielded to the transport so far
    idx,                  \* async_enumerate's i (main.py:156)
    pulls,                \* number of __anext__ calls issued to the adapter
    adapter,              \* "none" | "created" | "ended" | "raised"
    escaped,              \* the exception that left the generator, or NoneVal
    \* ---- verification gate and streaming handler ----
    TURNSTILE_SECRET_KEY, \* main.py:20
    hpc,                  \* position of stream_generate_knowledge_graph
    gate,                 \* the current invocation of verify_turnstile_token
    outbound,             \* number of POSTs sent to the verification provider
    http,                 \* the handler's HTTP outcome for the current request
    served,               \* number of requests and gate calls started so far
    \* ---- task registry ----
    results,              \* main.py:38  dict: task id -> the job's response
    jobs,                 \* per task id, the state of its process_openai job
    lastPoll,             \* history: the most recent call of get_result
    \* ---- model configuration (src/src/app/models.py) ----
    AVAILABLE_MODELS,     \* models.py:46  the environment variable
    patched,              \* a test double installed for get_available_models
    call,                 \* history: the most recent call of a models.py function
    \* ---- concurrent requests ----
    tasks,                \* per request task, its position in check_rate_limit
    accepted,             \* history: per key, checks accepted since its entry was created
    lastRequest           \* history: the most recent request to any endpoint

rateVars == <<RATE_LIMIT_REQUESTS, RATE_LIMIT_WINDOW, rate_limit_storage, now,
              ticks, checks, lastCheck>>
streamVars == <<ERROR_STREAM, script, pc, frames, idx, pulls, adapter, escaped>>
gateVars == <<TURNSTILE_SECRET_KEY, hpc, gate, outbound, http, served>>
taskVars == <<results, jobs, lastPoll>>
modelVars == <<AVAILABLE_MODELS, patched, call>>
concVars == <<tasks, accepted, lastRequest>>
vars == <<rateVars, streamVars, gateVars, taskVars, modelVars, concVars>>

\* ------------------------------------------------------------------ bounds
MaxLimit == 2       \* RATE_LIMIT_REQUESTS ranges over 1..MaxLimit
MaxWindow == 2      \* RATE_LIMIT_WINDOW is MaxWindow or the default
MaxTicks == 3       \* clock advances per behaviour
MaxItems == 3       \* items the adapter yields before it ends or raises
MaxRequests == 3    \* requests handled per behaviour of the handler

MaxTasks == 3       \* task ids issued per behaviour
MaxEnvLen == 3      \* parts in an AVAILABLE_MODELS value
MaxPatchLen == 2    \* models in a list returned by a test double
MaxConcurrent == 3  \* request tasks per behaviour of the event loop
\* ------------------------------------------------------- program constants
DefaultWindow == 60     \* os.getenv("RATE_LIMIT_WINDOW", "60")
maxsize == 10000        \* TTLCache(maxsize=10000, ...)
StatusTooMany == 429
StatusBadRequest == 400
StatusOK == 200

\* Python's None, where a string is expected.
NoneVal == "<None>"

\* Python truthiness of an optional string.
Truthy(s) == s \notin {NoneVal, ""}

\* --------------------------------------------------------------- requests
\* A request as get_client_ip reads it: X-Forwarded-For already split at ","
\* with each part stripped (<<>> when the header is absent or empty),
\* X-Real-IP, and the transport peer.
Requests ==
    { [forwarded |-> <<"A", "B">>, real_ip |-> "B",     client |-> "B"],
      [forwarded |-> <<>>,         real_ip |-> "B",     client |-> "A"],
      [forwarded |-> <<>>,         real_ip |-> NoneVal, client |-> "A"] }

get_client_ip(request) ==
    IF request.forwarded # <<>> THEN request.forwarded[1]
    ELSE IF Truthy(request.real_ip) THEN request.real_ip
    ELSE IF request.client # NoneVal THEN request.client
    ELSE "unknown"

Keys == { get_client_ip(r) : r \in Requests }

\* ------------------------------------------------------- str() and int()
Digits == <<"0", "1", "2", "3", "4", "5", "6", "7", "8", "9">>

RECURSIVE IntToStr(_)
\* str(n) for n >= 0: the decimal digits, most significant first.
IntToStr(n) ==
    IF n < 10 THEN <<Digits[n + 1]>>
    ELSE Append(IntToStr(n \div 10), Digits[(n % 10) + 1])

DigitValue(c) == CHOOSE d \in 0..9 : Digits[d + 1] = c

RECURSIVE StrToInt(_)
\* The client's reading of a decimal header value; -1 if it is no number.
StrToInt(s) ==
    IF s = <<>> \/ \E j \in 1..Len(s) : \A d \in 1..10 : Digits[d] # s[j] THEN -1
    ELSE IF Len(s) = 1 THEN DigitValue(s[1])
    ELSE 10 * StrToInt(SubSeq(s, 1, Len(s) - 1)) + DigitValue(s[Len(s)])

\* ------------------------------------------------------------- TTLCache
EmptyCache == [k \in {} |-> 0]

Expired_Late(entry, t) == t > entry.expires

\* TTLCache: an entry is expired when not (timer() < link.expires).
Expired(entry, t) == ~(t < entry.expires)

Live(store, k, t) == k \in DOMAIN store /\ ~Expired(store[k], t)

\* cache.get(key, default) that reads whatever is physically stored.
CacheGet_Stale(store, k, t, default) ==
    IF k \in DOMAIN store THEN store[k].count ELSE default

\* cache.get(key, default): an absent or expired entry reads as default.
CacheGet(store, k, t, default) ==
    IF Live(store, k, t) THEN store[k].count ELSE default

\* cache.expire(time): the physical removal of expired entries.
CacheExpire(store, t) ==
    [k \in {x \in DOMAIN store : ~Expired(store[x], t)} |-> store[k]]

\* cache.popitem(): removes the entry closest to expiry.
CachePopItem(store) ==
    LET victim == CHOOSE k \in DOMAIN store :
                      \A x \in DOMAIN store : store[k].expires <= store[x].expires
    IN  [k \in DOMAIN store \ {victim} |-> store[k]]

\* cache[key] = value: expire, make room for a new key, store the value with
\* a fresh expiry of timer() + ttl.
CacheSet(store, k, v, t, ttl) ==
    LET s1 == CacheExpire(store, t)
        s2 == IF k \notin DOMAIN s1 /\ Cardinality(DOMAIN s1) + 1 > maxsize
              THEN CachePopItem(s1) ELSE s1
    IN  [x \in DOMAIN s2 \cup {k} |->
            IF x = k THEN [count |-> v, expires |-> t + ttl] ELSE s2[x]]

\* ------------------------------------------------------ check_rate_limit
NoResponse == [status |-> 0, retry_after |-> -1, header |-> <<>>]

RejectResponse_Limit(lim, win) ==
    [status |-> StatusTooMany, retry_after |-> win, header |-> IntToStr(lim)]

\* HTTPException(429, detail={..., "retry_after": W}, headers={"Retry-After": str(W)})
RejectResponse(lim, win) ==
    [status |-> StatusTooMany, retry_after |-> win, header |-> IntToStr(win)]

\* The limit test with > in place of >=.
LimitExceeded_OffByOne(current_count, lim) == current_count > lim

LimitExceeded_Off(current_count, lim) == current_count > lim

\* if current_count >= RATE_LIMIT_REQUESTS
LimitExceeded(current_count, lim) == current_count >= lim

CheckResult_CountRejected(store, k, t, lim, win) ==
    LET current_count == CacheGet(store, k, t, 0)
    IN  [verdict  |-> IF LimitExceeded(current_count, lim) THEN "Reject" ELSE "Accept",
         response |-> IF LimitExceeded(current_count, lim)
                      THEN RejectResponse(lim, win) ELSE NoResponse,
         storage  |-> CacheSet(store, k, current_count + 1, t, win)]

\* The body of check_rate_limit for client key k at time t: the verdict, the
\* HTTP error raised on rejection, and the cache afterwards.
CheckResult(store, k, t, lim, win) ==
    LET current_count == CacheGet(store, k, t, 0)
    IN  IF LimitExceeded(current_count, lim)
        THEN [verdict  |-> "Reject",
              response |-> RejectResponse(lim, win),
              storage  |-> store]
        ELSE [verdict  |-> "Accept",
              response |-> NoResponse,
              storage  |-> CacheSet(store, k, current_count + 1, t, win)]

\* History of one client key: when the live entry was created, when the key
\* was last checked, the count that check left, and the verdicts of the first
\* checks made inside the window that started at the entry's creation.
NoWindow == [start |-> -1, last |-> -1, count |-> 0, log |-> <<>>]

NoCheck == [verdict |-> NoneVal, before |-> 0, after |-> 0, mutated |-> FALSE,
            rested |-> FALSE, prevCount |-> 0, response |-> NoResponse]

\* One call of check_rate_limit (it has no suspension point, so it runs to
\* completion on the event loop), with the history variables it feeds.
RateLimitStep(request) ==
    LET k == get_client_ip(request)
        r == CheckResult(rate_limit_storage, k, now,
                         RATE_LIMIT_REQUESTS, RATE_LIMIT_WINDOW)
        fresh == ~Live(rate_limit_storage, k, now)
        h == checks[k]
        inWindow == now < h.start + RATE_LIMIT_WINDOW
    IN  /\ rate_limit_storage' = r.storage
        /\ checks' = [checks EXCEPT ![k] =
              IF fresh
              THEN [start |-> now, last |-> now,
                    count |-> CacheGet(r.storage, k, now, 0),
                    log |-> <<r.verdict>>]
              ELSE [start |-> h.start, last |-> now,
                    count |-> CacheGet(r.storage, k, now, 0),
                    log |-> IF inWindow /\ Len(h.log) <= RATE_LIMIT_REQUESTS
                            THEN Append(h.log, r.verdict) ELSE h.log]]
        /\ lastCheck' =
              [verdict |-> r.verdict,
               before |-> CacheGet(rate_limit_storage, k, now, 0),
               after |-> CacheGet(r.storage, k, now, 0),
               mutated |-> r.storage # rate_limit_storage,
               rested |-> h.last >= 0 /\ now - h.last >= RATE_LIMIT_WINDOW,
               prevCount |-> h.count,
               response |-> r.response]

\* History of the most recent request: its endpoint, whether check_rate_limit
\* ran for it, and the current_requests it reported (rate-limit-test only).
NoRequest == [endpoint |-> "none", limited |-> FALSE, usage |-> 0]

\* Depends(check_rate_limit) of any rate-limited endpoint.
CheckRateLimit(request) ==
    /\ RateLimitStep(request)
    /\ UNCHANGED <<RATE_LIMIT_REQUESTS, RATE_LIMIT_WINDOW, now, ticks>>
    /\ UNCHANGED <<streamVars, gateVars>>
    /\ UNCHANGED <<taskVars, modelVars>>
    /\ UNCHANGED concVars

\* The timer advances: by one second, to just before a window's length, or
\* by a whole window.
Tick(d) ==
    /\ ticks < MaxTicks
    /\ d > 0
    /\ now' = now + d
    /\ ticks' = ticks + 1
    /\ UNCHANGED <<RATE_LIMIT_REQUESTS, RATE_LIMIT_WINDOW, rate_limit_storage,
                   checks, lastCheck>>
    /\ UNCHANGED <<streamVars, gateVars>>
    /\ UNCHANGED <<taskVars, modelVars>>
    /\ UNCHANGED concVars

\* ----------------------------------------------------- streaming session
\* Frames as the client reads them, one JSON record per line: the "status" key
\* (absent on an entity record) and the payload.
StartFrame    == [status |-> "streaming", result |-> [type |-> "metadata", id |-> 0]]
CompleteFrame == [status |-> "complete",  result |-> [type |-> "graph complete", id |-> 0]]
ErrorFrame    == [status |-> "error",     result |-> [type |-> "error", id |-> 0]]
\* entity.model_dump_json(): the adapter's record, unchanged.
EntityFrame(entity) == [status |-> NoneVal, result |-> entity]

IsStart(f)    == f.status = "streaming"
IsEntity(f)   == f.status = NoneVal
IsComplete(f) == f.status = "complete"
IsError(f)    == f.status = "error"
IsTerminal(f) == IsComplete(f) \/ IsError(f)

\* The adapter (stream_generate_graph) yields KnowledgeGraphEntity | None.
\* An entity carries its discriminator and, as its payload, its position.
NoneItem == [type |-> NoneVal, id |-> 0]
\* KnowledgeGraphEntity.type is a plain str (graph.py:49): the adapter can
\* deliver a discriminator that is neither "node" nor "edge".
Discriminators == {"node", "edge", "cluster"}
ItemSeqs(n) ==
    { s \in [1..n -> Discriminators \cup {NoneVal}] : TRUE }
MakeItems(s) ==
    [j \in DOMAIN s |-> IF s[j] = NoneVal THEN NoneItem ELSE [type |-> s[j], id |-> j]]
Endings == {"end", "ValidationError", "Exception"}
Scripts ==
    { [items |-> MakeItems(s), ending |-> e] :
          s \in UNION { ItemSeqs(n) : n \in 0..MaxItems }, e \in Endings }

\* os.getenv("ERROR_STREAM"): unset, "TRUE", or the decimal index of an item.
EnvUnset == <<NoneVal>>
EnvTRUE == <<"T", "R", "U", "E">>
ErrorStreamValues ==
    {EnvUnset, EnvTRUE} \cup { IntToStr(j) : j \in 0..(MaxItems - 1) }

\* if os.getenv("ERROR_STREAM") == "TRUE"
DebugAll(env) == env = EnvTRUE
\* if os.getenv("ERROR_STREAM") == str(i)
DebugAt(env, i) == env = IntToStr(i)

SkipItem_Never(entity) == FALSE

\* if entity is None: continue
SkipItem(entity) == entity = NoneItem

HandlerCatches_ValidationOnly(exc) == exc = "ValidationError"

\* except ValidationError / except Exception around the drain loop.
HandlerCatches(exc) == exc \in {"ValidationError", "Exception", "debug error"}

\* An Error frame that names the exception it reports.
ErrorFrameFor_Detailed(exc) ==
    [status |-> "error", result |-> [type |-> exc, id |-> 0]]

\* Both except clauses yield the same literal (main.py:250 and main.py:253);
\* the exception is only logged.
ErrorFrameFor(exc) == ErrorFrame

\* An exception raised inside the try block: the handler yields the Error
\* frame, or the exception leaves the generator.
OnRaise(fr, exc) ==
    IF HandlerCatches(exc)
    THEN [frames |-> Append(fr, ErrorFrameFor(exc)), pc |-> "yield_error",
          escaped |-> NoneVal]
    ELSE [frames |-> fr, pc |-> "done", escaped |-> exc]

OnEnd_InsideLoop(fr) == [frames |-> Append(fr, CompleteFrame), pc |-> "pulling"]

\* The adapter's sequence ended: yield the Complete frame after the loop.
OnEnd(fr) == [frames |-> Append(fr, CompleteFrame), pc |-> "yield_complete"]

FirstStep_AdapterFirst(fr) ==
    [frames |-> fr, pc |-> "pulling", adapter |-> "created", pulls |-> 1]

\* The generator's first step: yield the metadata frame (main.py:229), before
\* stream_generate_graph is even called (main.py:230).
FirstStep(fr) ==
    [frames |-> Append(fr, StartFrame), pc |-> "yield_start",
     adapter |-> "none", pulls |-> 0]

\* async_enumerate that asks the adapter for two items at a time.
async_enumerate_Prefetch(i, n) == [i |-> i + 1, pulls |-> n + 2]

\* async_enumerate resumed after `yield i, item` (main.py:151-159): i += 1,
\* then one __anext__ on the adapter.
async_enumerate(i, n) == [i |-> i + 1, pulls |-> n + 1]

\* First __anext__ of the session generator.
GenStart ==
    /\ pc = "init"
    /\ LET s == FirstStep(frames)
       IN  /\ frames' = s.frames
           /\ pc' = s.pc
           /\ adapter' = s.adapter
           /\ pulls' = s.pulls
    /\ UNCHANGED <<ERROR_STREAM, script, idx, escaped>>
    /\ UNCHANGED <<rateVars, gateVars>>
    /\ UNCHANGED <<taskVars, modelVars>>
    /\ UNCHANGED concVars

\* Resumed after the Start frame: create the adapter's generator, then either
\* the ERROR_STREAM=TRUE debug failure or the first pull.
GenResumeStart ==
    /\ pc = "yield_start"
    /\ adapter' = "created"
    /\ IF DebugAll(ERROR_STREAM)
       THEN LET r == OnRaise(frames, "debug error")
            IN  /\ frames' = r.frames
                /\ pc' = r.pc
                /\ escaped' = r.escaped
                /\ pulls' = pulls
       ELSE /\ pc' = "pulling"
            /\ pulls' = pulls + 1
            /\ UNCHANGED <<frames, escaped>>
    /\ UNCHANGED <<ERROR_STREAM, script, idx>>
    /\ UNCHANGED <<rateVars, gateVars>>
    /\ UNCHANGED <<taskVars, modelVars>>
    /\ UNCHANGED concVars

\* The pending pull delivers the next item of the adapter.
GenPullItem ==
    /\ pc = "pulling"
    /\ adapter = "created"
    /\ idx < Len(script.items)
    /\ LET entity == script.items[idx + 1]
       IN  IF DebugAt(ERROR_STREAM, idx)
           THEN LET r == OnRaise(frames, "debug error")
                IN  /\ frames' = r.frames
                    /\ pc' = r.pc
                    /\ escaped' = r.escaped
                    /\ UNCHANGED <<idx, pulls>>
           ELSE IF SkipItem(entity)
           THEN /\ idx' = async_enumerate(idx, pulls).i
                /\ pulls' = async_enumerate(idx, pulls).pulls
                /\ UNCHANGED <<pc, frames, escaped>>
           ELSE /\ frames' = Append(frames, EntityFrame(entity))
                /\ pc' = "yield_entity"
                /\ UNCHANGED <<idx, pulls, escaped>>
    /\ UNCHANGED <<ERROR_STREAM, script, adapter>>
    /\ UNCHANGED <<rateVars, gateVars>>
    /\ UNCHANGED <<taskVars, modelVars>>
    /\ UNCHANGED concVars

\* The pending pull finds the adapter's sequence at its end.
GenPullEnd ==
    /\ pc = "pulling"
    /\ adapter \in {"created", "ended"}
    /\ idx >= Len(script.items)
    /\ script.ending = "end"
    /\ adapter' = "ended"
    /\ LET r == OnEnd(frames)
       IN  /\ frames' = r.frames
           /\ pc' = r.pc
    /\ UNCHANGED <<ERROR_STREAM, script, idx, pulls, escaped>>
    /\ UNCHANGED <<rateVars, gateVars>>
    /\ UNCHANGED <<taskVars, modelVars>>
    /\ UNCHANGED concVars

\* The pending pull raises: the adapter failed after its items.
GenPullRaise ==
    /\ pc = "pulling"
    /\ adapter = "created"
    /\ idx >= Len(script.items)
    /\ script.ending # "end"
    /\ adapter' = "raised"
    /\ LET r == OnRaise(frames, script.ending)
       IN  /\ frames' = r.frames
           /\ pc' = r.pc
           /\ escaped' = r.escaped
    /\ UNCHANGED <<ERROR_STREAM, script, idx, pulls>>
    /\ UNCHANGED <<rateVars, gateVars>>
    /\ UNCHANGED <<taskVars, modelVars>>
    /\ UNCHANGED concVars

\* Resumed after an Entity frame: async_enumerate's i += 1, then the next pull.
GenResumeEntity ==
    /\ pc = "yield_entity"
    /\ idx' = async_enumerate(idx, pulls).i
    /\ pulls' = async_enumerate(idx, pulls).pulls
    /\ pc' = "pulling"
    /\ UNCHANGED <<ERROR_STREAM, script, frames, adapter, escaped>>
    /\ UNCHANGED <<rateVars, gateVars>>
    /\ UNCHANGED <<taskVars, modelVars>>
    /\ UNCHANGED concVars

\* Resumed after a terminal frame: the generator returns.
GenFinish ==
    /\ pc \in {"yield_complete", "yield_error"}
    /\ pc' = "done"
    /\ UNCHANGED <<ERROR_STREAM, script, frames, idx, pulls, adapter, escaped>>
    /\ UNCHANGED <<rateVars, gateVars>>
    /\ UNCHANGED <<taskVars, modelVars>>
    /\ UNCHANGED concVars

\* A generator that answers its own closing with an Error frame.
OnClose_Reported(fr) == [frames |-> Append(fr, ErrorFrame), pc |-> "closed"]

\* GeneratorExit / CancelledError thrown into the suspended generator: both
\* are BaseExceptions, so neither `except ValidationError` nor
\* `except Exception` (main.py:248-253) runs, and there is no finally.
OnClose(fr) == [frames |-> fr, pc |-> "closed"]

\* The transport closes the generator (client gone): GeneratorExit or
\* CancelledError at the suspension point, which no except clause here catches.
GenClose ==
    /\ pc \in {"yield_start", "pulling", "yield_entity", "yield_complete", "yield_error"}
    /\ pc' = OnClose(frames).pc
    /\ frames' = OnClose(frames).frames
    /\ UNCHANGED <<ERROR_STREAM, script, idx, pulls, adapter, escaped>>
    /\ UNCHANGED <<rateVars, gateVars>>
    /\ UNCHANGED <<taskVars, modelVars>>
    /\ UNCHANGED concVars

\* ------------------------------------------- generate_users_stream_response
\* List mode (main.py:344-352): no metadata frame, no Complete frame and no
\* try/except; the items are those of stream_generate_users.
UsersStart ==
    /\ pc = "u_init"
    /\ adapter' = "created"
    /\ pulls' = pulls + 1
    /\ pc' = "u_pulling"
    /\ UNCHANGED <<ERROR_STREAM, script, frames, idx, escaped>>
    /\ UNCHANGED <<rateVars, gateVars, taskVars, modelVars, concVars>>

\* The pending pull delivers an item: None is skipped, anything else is
\* yielded as entity.model_dump_json().
UsersPullItem ==
    /\ pc = "u_pulling"
    /\ idx < Len(script.items)
    /\ LET entity == script.items[idx + 1]
       IN  IF SkipItem(entity)
           THEN /\ idx' = idx + 1
                /\ pulls' = pulls + 1
                /\ UNCHANGED <<pc, frames>>
           ELSE /\ frames' = Append(frames, EntityFrame(entity))
                /\ pc' = "u_yield"
                /\ UNCHANGED <<idx, pulls>>
    /\ UNCHANGED <<ERROR_STREAM, script, adapter, escaped>>
    /\ UNCHANGED <<rateVars, gateVars, taskVars, modelVars, concVars>>

\* The adapter's sequence ended: the generator returns.
UsersPullEnd ==
    /\ pc = "u_pulling"
    /\ idx >= Len(script.items)
    /\ script.ending = "end"
    /\ adapter' = "ended"
    /\ pc' = "done"
    /\ UNCHANGED <<ERROR_STREAM, script, frames, idx, pulls, escaped>>
    /\ UNCHANGED <<rateVars, gateVars, taskVars, modelVars, concVars>>

\* The adapter raises: nothing catches it, the exception leaves the generator.
UsersPullRaise ==
    /\ pc = "u_pulling"
    /\ idx >= Len(script.items)
    /\ script.ending # "end"
    /\ adapter' = "raised"
    /\ escaped' = script.ending
    /\ pc' = "done"
    /\ UNCHANGED <<ERROR_STREAM, script, frames, idx, pulls>>
    /\ UNCHANGED <<rateVars, gateVars, taskVars, modelVars, concVars>>

\* Resumed after a frame: the next pull.
UsersResume ==
    /\ pc = "u_yield"
    /\ idx' = idx + 1
    /\ pulls' = pulls + 1
    /\ pc' = "u_pulling"
    /\ UNCHANGED <<ERROR_STREAM, script, frames, adapter, escaped>>
    /\ UNCHANGED <<rateVars, gateVars, taskVars, modelVars, concVars>>

\* The transport closes the generator while it is suspended.
UsersClose ==
    /\ pc \in {"u_pulling", "u_yield"}
    /\ pc' = "closed"
    /\ UNCHANGED <<ERROR_STREAM, script, frames, idx, pulls, adapter, escaped>>
    /\ UNCHANGED <<rateVars, gateVars, taskVars, modelVars, concVars>>

\* ------------------------------------------------- verify_turnstile_token
Secrets == {NoneVal, "", "secret"}
Tokens == {NoneVal, "", "token"}

\* What the POST to the verification provider comes to.
ProviderOutcomes ==
    {"success_true", "success_false", "success_missing", "not_an_object",
     "unparseable", "transport_error", "timeout"}

NoGate == [state |-> "idle", caller |-> "none", token |-> NoneVal,
           client_ip |-> NoneVal, calls |-> 0, outcome |-> NoneVal,
           result |-> FALSE, exc |-> NoneVal]

GateEnter_IsNone(secret, token, client_ip, caller) ==
    IF secret = NoneVal
    THEN [NoGate EXCEPT !.state = "returned", !.caller = caller, !.token = token,
                        !.client_ip = client_ip, !.result = TRUE]
    ELSE [NoGate EXCEPT !.state = "awaiting", !.caller = caller, !.token = token,
                        !.client_ip = client_ip, !.calls = 1]

\* verify_turnstile_token up to its first suspension point: without a secret
\* it returns True at once (main.py:98-102); otherwise it sends the one POST
\* (main.py:106) and awaits the response.
GateEnter(secret, token, client_ip, caller) ==
    IF ~Truthy(secret)
    THEN [NoGate EXCEPT !.state = "returned", !.caller = caller, !.token = token,
                        !.client_ip = client_ip, !.result = TRUE]
    ELSE [NoGate EXCEPT !.state = "awaiting", !.caller = caller, !.token = token,
                        !.client_ip = client_ip, !.calls = 1]

\* The exception, if any, that lines 106-116 raise on a provider outcome.
GateException(outcome) ==
    CASE outcome = "transport_error" -> "httpx.TransportError"   \* client.post
      [] outcome = "timeout"         -> "httpx.TimeoutException" \* client.post
      [] outcome = "unparseable"     -> "JSONDecodeError"        \* response.json()
      [] outcome = "not_an_object"   -> "AttributeError"         \* result.get
      [] OTHER                       -> NoneVal

GateCatches_HttpOnly(exc) == exc \in {"httpx.TransportError", "httpx.TimeoutException"}

\* except Exception (main.py:128)
GateCatches(exc) ==
    exc \in {"httpx.TransportError", "httpx.TimeoutException", "JSONDecodeError",
             "AttributeError"}

\* verify_turnstile_token from the provider's response to its return.
GateLeave(g, outcome) ==
    LET exc == GateException(outcome)
    IN  IF exc = NoneVal
        THEN [g EXCEPT !.state = "returned", !.outcome = outcome,
                       !.result = (outcome = "success_true")]  \* result.get("success")
        ELSE IF GateCatches(exc)
        THEN [g EXCEPT !.state = "returned", !.outcome = outcome, !.result = FALSE]
        ELSE [g EXCEPT !.state = "raised", !.outcome = outcome, !.exc = exc]

\* ------------------------------------------ stream_generate_knowledge_graph
\* The current request's outcome: HTTP status, the token it carried, the error
\* raised, whether its handler invoked the gate, and the POSTs sent for it.
NoHttp == [status |-> 0, token |-> NoneVal, error |-> NoneVal,
           gated |-> FALSE, posts |-> 0]

HandlerBranch_SecretFirst(token, secret) ==
    IF Truthy(secret) THEN "verify"
    ELSE "stream"

\* The handler's branch (main.py:305, 320): verify a token that is present,
\* refuse a missing token when a secret is configured, stream otherwise.
HandlerBranch(token, secret) ==
    IF Truthy(token) THEN "verify"
    ELSE IF Truthy(secret) THEN "required"
    ELSE "stream"

\* The handler once the gate has answered (main.py:310-341): 400, or the
\* StreamingResponse over a new session generator.
AfterGate(g, token) ==
    IF g.state = "raised"
    THEN [status |-> 500, token |-> token, error |-> g.exc,
          gated |-> TRUE, posts |-> g.calls]
    ELSE IF ~g.result
    THEN [status |-> StatusBadRequest, token |-> token,
          error |-> "Invalid security verification",
          gated |-> TRUE, posts |-> g.calls]
    ELSE [status |-> StatusOK, token |-> token, error |-> NoneVal,
          gated |-> TRUE, posts |-> g.calls]

SessionPc_Eager(response) == "init"

\* The session generator exists only once the handler returns the
\* StreamingResponse (main.py:330-341); an HTTPException creates none.
SessionPc(response) == IF response.status = StatusOK THEN "init" ELSE "none"

\* A handler that looks for the token before the admission check is made.
DependencyRunsFirst_TokenFirst == FALSE

\* `_: None = Depends(check_rate_limit)` (main.py:297): FastAPI resolves the
\* dependency before it calls the handler body.
DependencyRunsFirst == TRUE

\* A request to /api/stream-generate-graph: Depends(check_rate_limit), then
\* the handler body up to its first suspension point. The session variables
\* are those of this request.
StreamRequest(request, token) ==
    /\ hpc \in {"idle", "done"}
    /\ served < MaxRequests
    /\ served' = served + 1
    /\ IF DependencyRunsFirst
          \/ HandlerBranch(token, TURNSTILE_SECRET_KEY) # "required"
       THEN RateLimitStep(request)
       ELSE UNCHANGED <<rate_limit_storage, checks, lastCheck>>
    /\ LET k == get_client_ip(request)
           r == CheckResult(rate_limit_storage, k, now,
                            RATE_LIMIT_REQUESTS, RATE_LIMIT_WINDOW)
           branch == HandlerBranch(token, TURNSTILE_SECRET_KEY)
           g == GateEnter(TURNSTILE_SECRET_KEY, token, k, "handler")
           response ==
               IF r.verdict = "Reject"
               THEN [NoHttp EXCEPT !.status = r.response.status, !.token = token,
                                   !.error = "Rate limit exceeded"]
               ELSE IF branch = "verify"
               THEN IF g.state = "returned" THEN AfterGate(g, token)
                    ELSE [NoHttp EXCEPT !.token = token, !.gated = TRUE,
                                        !.posts = g.calls]
               ELSE IF branch = "required"
               THEN [NoHttp EXCEPT !.status = StatusBadRequest, !.token = token,
                                   !.error = "Security verification required"]
               ELSE [NoHttp EXCEPT !.status = StatusOK, !.token = token]
       IN  /\ http' = response
           /\ hpc' = IF response.status = 0 THEN "verifying" ELSE "done"
           /\ pc' = SessionPc(response)
           /\ IF r.verdict = "Accept" /\ branch = "verify"
              THEN /\ gate' = g
                   /\ outbound' = outbound + g.calls
              ELSE UNCHANGED <<gate, outbound>>
    /\ frames' = <<>>
    /\ idx' = 0
    /\ pulls' = 0
    /\ adapter' = "none"
    /\ escaped' = NoneVal
    /\ UNCHANGED <<RATE_LIMIT_REQUESTS, RATE_LIMIT_WINDOW, now, ticks>>
    /\ UNCHANGED <<ERROR_STREAM, script>>
    /\ UNCHANGED TURNSTILE_SECRET_KEY
    /\ UNCHANGED <<taskVars, modelVars>>
    /\ lastRequest' = [NoRequest EXCEPT !.endpoint = "stream-generate-graph",
                                        !.limited = TRUE]
    /\ UNCHANGED <<tasks, accepted>>

\* verify_turnstile_token called on its own, with any token.
VerifyCall(token, client_ip) ==
    /\ hpc \in {"idle", "done"}
    /\ gate.state # "awaiting"
    /\ served < MaxRequests
    /\ served' = served + 1
    /\ LET g == GateEnter(TURNSTILE_SECRET_KEY, token, client_ip, "direct")
       IN  /\ gate' = g
           /\ outbound' = outbound + g.calls
    /\ UNCHANGED <<TURNSTILE_SECRET_KEY, hpc, http>>
    /\ UNCHANGED <<rateVars, streamVars>>
    /\ UNCHANGED <<taskVars, modelVars>>
    /\ UNCHANGED concVars

\* The provider's answer (or the failure of the call) arrives; the gate
\* returns and, when the handler called it, the handler runs to its end.
ProviderResponds(outcome) ==
    /\ gate.state = "awaiting"
    /\ LET g == GateLeave(gate, outcome)
       IN  /\ gate' = g
           /\ IF gate.caller = "handler"
              THEN /\ http' = AfterGate(g, gate.token)
                   /\ hpc' = "done"
                   /\ pc' = SessionPc(AfterGate(g, gate.token))
              ELSE UNCHANGED <<http, hpc, pc>>
    /\ UNCHANGED <<TURNSTILE_SECRET_KEY, outbound, served>>
    /\ UNCHANGED <<ERROR_STREAM, script, frames, idx, pulls, adapter, escaped>>
    /\ UNCHANGED rateVars
    /\ UNCHANGED <<taskVars, modelVars>>
    /\ UNCHANGED concVars

\* ------------------------------------------------ task registry (results)
\* str(uuid4()) (main.py:378): the j-th identifier issued is j; identifiers are
\* never issued twice.
TaskIds == 1..MaxTasks

\* The value get_result substitutes for an id that has no entry (main.py:385).
Processing == [kind |-> "Processing...", job |-> 0]
\* What agenerate_graph returns to the job started for task_id.
Response(task_id) == [kind |-> "KnowledgeGraph", job |-> task_id]

EmptyDict == [id \in {} |-> Processing]
DictGet(d, k, default) == IF k \in DOMAIN d THEN d[k] ELSE default
DictSet(d, k, v) == [x \in DOMAIN d \cup {k} |-> IF x = k THEN v ELSE d[x]]

NoJob == [state |-> "none", writes |-> 0, raised |-> FALSE]
NoPoll == [task_id |-> 0, value |-> Processing, state |-> "none"]

Issued == { id \in TaskIds : jobs[id].state # "none" }
uuid4 == Cardinality(Issued) + 1

\* results[task_id] = response, filed under the order of completion.
StoreResult_ByCompletion(res, task_id, response) ==
    DictSet(res, Cardinality(DOMAIN res) + 1, response)

\* results[task_id] = response (main.py:192)
StoreResult(res, task_id, response) == DictSet(res, task_id, response)

\* POST /api/start-generate-graph: Depends(check_rate_limit), then a fresh id
\* and the job handed to BackgroundTasks. Nothing is written to results.
StartGenerateGraph(request) ==
    /\ uuid4 \in TaskIds
    /\ RateLimitStep(request)
    /\ LET k == get_client_ip(request)
           r == CheckResult(rate_limit_storage, k, now,
                            RATE_LIMIT_REQUESTS, RATE_LIMIT_WINDOW)
       IN  jobs' = IF r.verdict = "Accept"
                   THEN [jobs EXCEPT ![uuid4].state = "scheduled"]
                   ELSE jobs
    /\ UNCHANGED <<results, lastPoll>>
    /\ UNCHANGED <<RATE_LIMIT_REQUESTS, RATE_LIMIT_WINDOW, now, ticks>>
    /\ UNCHANGED <<streamVars, gateVars, modelVars>>
    /\ lastRequest' = [NoRequest EXCEPT !.endpoint = "start-generate-graph",
                                        !.limited = TRUE]
    /\ UNCHANGED <<tasks, accepted>>

\* The background task starts and suspends at `await agenerate_graph(...)`.
ProcessOpenaiCall(task_id) ==
    /\ jobs[task_id].state = "scheduled"
    /\ jobs' = [jobs EXCEPT ![task_id].state = "awaiting"]
    /\ UNCHANGED <<results, lastPoll>>
    /\ UNCHANGED <<rateVars, streamVars, gateVars, modelVars>>
    /\ UNCHANGED concVars

\* agenerate_graph returns; the job stores the response and ends.
ProcessOpenaiReturn(task_id) ==
    /\ jobs[task_id].state = "awaiting"
    /\ results' = StoreResult(results, task_id, Response(task_id))
    /\ jobs' = [jobs EXCEPT ![task_id].state = "done",
                            ![task_id].writes = @ + 1]
    /\ UNCHANGED lastPoll
    /\ UNCHANGED <<rateVars, streamVars, gateVars, modelVars>>
    /\ UNCHANGED concVars

\* agenerate_graph raises; process_openai has no handler, so the exception
\* leaves the job and line 192 is never reached.
ProcessOpenaiRaise(task_id) ==
    /\ jobs[task_id].state = "awaiting"
    /\ jobs' = [jobs EXCEPT ![task_id].state = "raised",
                            ![task_id].raised = TRUE]
    /\ UNCHANGED <<results, lastPoll>>
    /\ UNCHANGED <<rateVars, streamVars, gateVars, modelVars>>
    /\ UNCHANGED concVars

\* GET /api/graph/{task_id}, for any id a client may send.
GetResult(task_id) ==
    /\ lastPoll' = [task_id |-> task_id,
                    value |-> DictGet(results, task_id, Processing),
                    state |-> jobs[task_id].state]
    /\ UNCHANGED <<results, jobs>>
    /\ UNCHANGED <<rateVars, streamVars, gateVars, modelVars>>
    /\ lastRequest' = [NoRequest EXCEPT !.endpoint = "graph/{task_id}"]
    /\ UNCHANGED <<tasks, accepted>>

\* ------------------------------------------------- model configuration
\* A string is the sequence of its parts: a comma, a blank, or a run of other
\* characters (a word). The words used are whole model names, right or wrong.
Comma == ","
Space == " "

ALL_MODELS ==
    << "gpt-4o-mini-2024-07-18",
       "gpt-4.1-mini-2025-04-14",
       "gpt-3.5-turbo-0125",
       "o4-mini-2025-04-16",
       "o3-2025-04-16",
       "gpt-4.1-2025-04-14",
       "gpt-4o-2024-08-06" >>

MODEL_PRIORITY ==
    << "gpt-4.1-2025-04-14",
       "o3-2025-04-16",
       "gpt-4o-2024-08-06",
       "o4-mini-2025-04-16",
       "gpt-4.1-mini-2025-04-14",
       "gpt-4o-mini-2024-07-18",
       "gpt-3.5-turbo-0125" >>

Range(f) == { f[i] : i \in DOMAIN f }

\* The words an AVAILABLE_MODELS value is built from: two known models whose
\* order in ALL_MODELS is the reverse of their order in MODEL_PRIORITY, an
\* unknown name, and a known name in the wrong case.
EnvWords ==
    { "gpt-4o-mini-2024-07-18", "gpt-4.1-2025-04-14",
      "invalid-model", "GPT-4O-MINI-2024-07-18" }
EnvParts == {Comma, Space} \cup EnvWords
EnvStrings == UNION { [1..n -> EnvParts] : n \in 0..MaxEnvLen }
EnvValues == {EnvUnset} \cup EnvStrings

\* os.getenv(name, default)
getenv(env, default) == IF env = EnvUnset THEN default ELSE env

\* str.split(sep): the pieces between separators, empty pieces included.
RECURSIVE Split(_, _)
Split(s, sep) ==
    IF \A i \in DOMAIN s : s[i] # sep
    THEN <<s>>
    ELSE LET i == CHOOSE x \in DOMAIN s :
                      s[x] = sep /\ \A y \in 1..(x - 1) : s[y] # sep
         IN  <<SubSeq(s, 1, i - 1)>> \o Split(SubSeq(s, i + 1, Len(s)), sep)

\* str.strip() that removes nothing.
Strip_None(s) == s

\* str.strip(): leading and trailing blanks removed.
Strip(s) ==
    LET keep == { i \in DOMAIN s : s[i] # Space }
    IN  IF keep = {} THEN <<>>
        ELSE LET lo == CHOOSE i \in keep : \A j \in keep : i <= j
                 hi == CHOOSE i \in keep : \A j \in keep : j <= i
             IN  SubSeq(s, lo, hi)

\* `x in ALL_MODELS` for a string x: x is one word and that word is listed.
InAllModels(x) == Len(x) = 1 /\ x[1] \in Range(ALL_MODELS)

\* get_available_models as written in models.py.
ParseAvailableModels(env) ==
    LET available_models_env == getenv(env, <<>>)
    IN  IF available_models_env # <<>>
        THEN LET pieces == Split(available_models_env, Comma)
                 kept == SelectSeq(pieces, LAMBDA model : InAllModels(Strip(model)))
                 available_models == [i \in DOMAIN kept |-> Strip(kept[i])[1]]
             IN  IF available_models = <<>> THEN ALL_MODELS ELSE available_models
        ELSE ALL_MODELS

\* unittest.mock.patch("app.models.get_available_models"): the lists a test
\* double returns.
PatchWords == {"some-other-model", "gpt-4o-mini-2024-07-18", "gpt-4.1-2025-04-14"}
PatchLists == UNION { [1..n -> PatchWords] : n \in 1..MaxPatchLen }
NoPatch == [active |-> FALSE, value |-> <<>>]
Patches == { [active |-> TRUE, value |-> l] : l \in PatchLists }

get_available_models ==
    IF patched.active THEN patched.value ELSE ParseAvailableModels(AVAILABLE_MODELS)

\* get_default_model that takes the first available model.
get_default_model_FirstAvailable ==
    LET available_models == get_available_models
    IN  IF available_models # <<>> THEN available_models[1] ELSE ALL_MODELS[1]

get_default_model ==
    LET available_models == get_available_models
        hits == { i \in DOMAIN MODEL_PRIORITY :
                      MODEL_PRIORITY[i] \in Range(available_models) }
    IN  IF hits # {}
        THEN MODEL_PRIORITY[CHOOSE i \in hits : \A j \in hits : i <= j]
        ELSE IF available_models # <<>> THEN available_models[1]
        ELSE ALL_MODELS[1]

validate_model(model) == model \in Range(get_available_models)

\* get_best_available_model without the availability test.
get_best_available_model_Unchecked(preferred_model) ==
    IF Truthy(preferred_model) THEN preferred_model ELSE get_default_model

get_best_available_model(preferred_model) ==
    LET available_models == get_available_models
    IN  IF Truthy(preferred_model) /\ preferred_model \in Range(available_models)
        THEN preferred_model
        ELSE get_default_model

\* The arguments callers pass: None, "", known and unknown names.
ModelArgs ==
    {NoneVal, "", "gpt-3.5-turbo-0125"} \cup EnvWords \cup PatchWords

NoCall == [fn |-> "none", arg |-> NoneVal, list |-> <<>>, model |-> NoneVal,
           valid |-> FALSE, available |-> <<>>]

CallGetAvailableModels ==
    /\ call' = [NoCall EXCEPT !.fn = "get_available_models",
                              !.list = get_available_models,
                              !.available = get_available_models]
    /\ UNCHANGED <<AVAILABLE_MODELS, patched>>
    /\ UNCHANGED <<rateVars, streamVars, gateVars, taskVars>>
    /\ UNCHANGED concVars

CallGetDefaultModel ==
    /\ call' = [NoCall EXCEPT !.fn = "get_default_model",
                              !.model = get_default_model,
                              !.valid = validate_model(get_default_model),
                              !.available = get_available_models]
    /\ UNCHANGED <<AVAILABLE_MODELS, patched>>
    /\ UNCHANGED <<rateVars, streamVars, gateVars, taskVars>>
    /\ UNCHANGED concVars

CallValidateModel(model) ==
    /\ call' = [NoCall EXCEPT !.fn = "validate_model",
                              !.arg = model,
                              !.valid = validate_model(model),
                              !.available = get_available_models]
    /\ UNCHANGED <<AVAILABLE_MODELS, patched>>
    /\ UNCHANGED <<rateVars, streamVars, gateVars, taskVars>>
    /\ UNCHANGED concVars

\* get_best_available_model(preferred_model), and validate_model of what it
\* returned.
CallGetBestAvailableModel(preferred_model) ==
    /\ call' = [NoCall EXCEPT !.fn = "get_best_available_model",
                              !.arg = preferred_model,
                              !.model = get_best_available_model(preferred_model),
                              !.valid = validate_model(
                                            get_best_available_model(preferred_model)),
                              !.available = get_available_models]
    /\ UNCHANGED <<AVAILABLE_MODELS, patched>>
    /\ UNCHANGED <<rateVars, streamVars, gateVars, taskVars>>
    /\ UNCHANGED concVars

\* ------------------------------------- concurrent calls of check_rate_limit
\* Request tasks run on one event loop: a task runs from where it is to its
\* next suspension point (an await that yields), and only there can another
\* task run.
TaskSlots == 1..MaxConcurrent

NoTask == [pc |-> "none", key |-> NoneVal, current_count |-> 0,
           verdict |-> NoneVal]

\* check_rate_limit with an await between its read and its write.
Suspends_AfterRead(point) == point = "read"

\* check_rate_limit (main.py:63-93) contains no await: it never suspends.
Suspends(point) == FALSE

\* Lines 72-88 for a task that read current_count.
FinishCheck(task, store, t, lim, win) ==
    IF LimitExceeded(task.current_count, lim)
    THEN [task |-> [task EXCEPT !.pc = "done", !.verdict = "Reject"],
          storage |-> store]
    ELSE [task |-> [task EXCEPT !.pc = "done", !.verdict = "Accept"],
          storage |-> CacheSet(store, task.key, task.current_count + 1, t, win)]

\* One scheduling of a task: from its position to its next suspension point
\* or to its end.
TaskStep(task, store, t, lim, win) ==
    IF task.pc = "ready"
    THEN LET read == [task EXCEPT
                         !.current_count = CacheGet(store, task.key, t, 0)]
         IN  IF Suspends("read")
             THEN [task |-> [read EXCEPT !.pc = "read"], storage |-> store]
             ELSE FinishCheck(read, store, t, lim, win)
    ELSE FinishCheck(task, store, t, lim, win)

\* A request arrives and its task is created, not yet run.
Arrive(slot, request) ==
    /\ tasks[slot].pc = "none"
    /\ \A other \in TaskSlots : other < slot => tasks[other].pc # "none"
    /\ tasks' = [tasks EXCEPT ![slot] =
                    [NoTask EXCEPT !.pc = "ready", !.key = get_client_ip(request)]]
    /\ UNCHANGED <<accepted, lastRequest>>
    /\ UNCHANGED <<rateVars, streamVars, gateVars, taskVars, modelVars>>

\* The event loop runs one of the tasks that can run.
RunTask(slot) ==
    /\ tasks[slot].pc \in {"ready", "read"}
    /\ LET r == TaskStep(tasks[slot], rate_limit_storage, now,
                         RATE_LIMIT_REQUESTS, RATE_LIMIT_WINDOW)
           k == tasks[slot].key
       IN  /\ tasks' = [tasks EXCEPT ![slot] = r.task]
           /\ rate_limit_storage' = r.storage
           /\ accepted' =
                 IF r.task.verdict = "Accept"
                 THEN [accepted EXCEPT ![k] =
                          IF Live(rate_limit_storage, k, now) THEN @ + 1 ELSE 1]
                 ELSE accepted
    /\ UNCHANGED lastRequest
    /\ UNCHANGED <<RATE_LIMIT_REQUESTS, RATE_LIMIT_WINDOW, now, ticks, checks,
                   lastCheck>>
    /\ UNCHANGED <<streamVars, gateVars, taskVars, modelVars>>

\* ------------------------------------------------- the other endpoints
\* The endpoints declared with Depends(check_rate_limit), all without it.
RateLimited_None == {}

\* The endpoints declared with `_: None = Depends(check_rate_limit)`
\* (main.py:199, 279, 297, 360, 376).
RateLimited ==
    { "generate-graph", "rate-limit-test", "stream-generate-graph",
      "stream-users", "start-generate-graph" }

\* The admission dependency of an endpoint, when it has one.
Admission(endpoint, request) ==
    IF endpoint \in RateLimited
    THEN RateLimitStep(request)
    ELSE UNCHANGED <<rate_limit_storage, checks, lastCheck>>

Admitted(endpoint, request) ==
    endpoint \in RateLimited =>
        CheckResult(rate_limit_storage, get_client_ip(request), now,
                    RATE_LIMIT_REQUESTS, RATE_LIMIT_WINDOW).verdict = "Accept"

\* POST /api/generate-graph: the admission check, then the awaited generation
\* whose response is returned to the caller; no module state is written.
GenerateGraph(request) ==
    /\ Admission("generate-graph", request)
    /\ lastRequest' = [NoRequest EXCEPT !.endpoint = "generate-graph",
                                        !.limited = "generate-graph" \in RateLimited]
    /\ UNCHANGED <<RATE_LIMIT_REQUESTS, RATE_LIMIT_WINDOW, now, ticks>>
    /\ UNCHANGED <<tasks, accepted>>
    /\ UNCHANGED <<streamVars, gateVars, taskVars, modelVars>>

\* GET /api/rate-limit-test: the admission check, then the handler reads the
\* caller's count back for its response.
RateLimitTest(request) ==
    /\ Admission("rate-limit-test", request)
    /\ lastRequest' =
          [NoRequest EXCEPT
              !.endpoint = "rate-limit-test",
              !.limited = "rate-limit-test" \in RateLimited,
              !.usage = IF Admitted("rate-limit-test", request)
                        THEN CacheGet(rate_limit_storage', get_client_ip(request),
                                      now, 0)
                        ELSE 0]
    /\ UNCHANGED <<RATE_LIMIT_REQUESTS, RATE_LIMIT_WINDOW, now, ticks>>
    /\ UNCHANGED <<tasks, accepted>>
    /\ UNCHANGED <<streamVars, gateVars, taskVars, modelVars>>

\* POST /api/stream-users: the admission check, then a list-mode session is
\* handed to StreamingResponse.
StreamUsers(request) ==
    /\ Admission("stream-users", request)
    /\ lastRequest' = [NoRequest EXCEPT !.endpoint = "stream-users",
                                        !.limited = "stream-users" \in RateLimited]
    /\ pc' = IF Admitted("stream-users", request) THEN "u_init" ELSE "none"
    /\ frames' = <<>>
    /\ idx' = 0
    /\ pulls' = 0
    /\ adapter' = "none"
    /\ escaped' = NoneVal
    /\ UNCHANGED <<ERROR_STREAM, script>>
    /\ UNCHANGED <<RATE_LIMIT_REQUESTS, RATE_LIMIT_WINDOW, now, ticks>>
    /\ UNCHANGED <<tasks, accepted>>
    /\ UNCHANGED <<gateVars, taskVars, modelVars>>

\* GET /: no dependency, no state.
Home ==
    /\ lastRequest' = [NoRequest EXCEPT !.endpoint = "home"]
    /\ UNCHANGED <<tasks, accepted>>
    /\ UNCHANGED <<rateVars, streamVars, gateVars, taskVars, modelVars>>

\* ------------------------------------------------------- specifications
RateDefaults ==
    /\ rate_limit_storage = EmptyCache
    /\ now = 0
    /\ ticks = 0
    /\ checks = [k \in Keys |-> NoWindow]
    /\ lastCheck = NoCheck

StreamDefaults ==
    /\ ERROR_STREAM = EnvUnset
    /\ script = [items |-> <<>>, ending |-> "end"]
    /\ pc = "none"
    /\ frames = <<>>
    /\ idx = 0
    /\ pulls = 0
    /\ adapter = "none"
    /\ escaped = NoneVal

GateDefaults ==
    /\ hpc = "idle"
    /\ gate = NoGate
    /\ outbound = 0
    /\ http = NoHttp
    /\ served = 0

TaskDefaults ==
    /\ results = EmptyDict
    /\ jobs = [id \in TaskIds |-> NoJob]
    /\ lastPoll = NoPoll

ModelDefaults ==
    /\ AVAILABLE_MODELS = EnvUnset
    /\ patched = NoPatch
    /\ call = NoCall

ConcDefaults ==
    /\ tasks = [slot \in TaskSlots |-> NoTask]
    /\ accepted = [k \in Keys |-> 0]
    /\ lastRequest = NoRequest

Windows == {MaxWindow, DefaultWindow}

\* The admission controller alone: checks from several clients, and the clock.
InitRate ==
    /\ RATE_LIMIT_REQUESTS \in 1..MaxLimit
    /\ RATE_LIMIT_WINDOW \in Windows
    /\ RateDefaults
    /\ StreamDefaults
    /\ TURNSTILE_SECRET_KEY = NoneVal
    /\ GateDefaults
    /\ TaskDefaults
    /\ ModelDefaults
    /\ ConcDefaults

NextRate ==
    \/ \E request \in Requests : CheckRateLimit(request)
    \/ \E d \in {1, RATE_LIMIT_WINDOW - 1, RATE_LIMIT_WINDOW} : Tick(d)

SpecRate == InitRate /\ [][NextRate]_vars

\* One streaming session over every adapter script and debug setting.
InitStream ==
    /\ RATE_LIMIT_REQUESTS = 1
    /\ RATE_LIMIT_WINDOW = DefaultWindow
    /\ RateDefaults
    /\ ERROR_STREAM \in ErrorStreamValues
    /\ script \in Scripts
    /\ pc = "init"
    /\ frames = <<>>
    /\ idx = 0
    /\ pulls = 0
    /\ adapter = "none"
    /\ escaped = NoneVal
    /\ TURNSTILE_SECRET_KEY = NoneVal
    /\ GateDefaults
    /\ TaskDefaults
    /\ ModelDefaults
    /\ ConcDefaults

NextStream ==
    \/ GenStart
    \/ GenResumeStart
    \/ GenPullItem
    \/ GenPullEnd
    \/ GenPullRaise
    \/ GenResumeEntity
    \/ GenFinish
    \/ GenClose

SpecStream == InitStream /\ [][NextStream]_vars

\* The streaming endpoint's admission and verification, and the gate called
\* on its own.
InitGate ==
    /\ RATE_LIMIT_REQUESTS \in 1..MaxLimit
    /\ RATE_LIMIT_WINDOW = DefaultWindow
    /\ RateDefaults
    /\ StreamDefaults
    /\ TURNSTILE_SECRET_KEY \in Secrets
    /\ GateDefaults
    /\ TaskDefaults
    /\ ModelDefaults
    /\ ConcDefaults

NextGate ==
    \/ \E request \in Requests, token \in Tokens : StreamRequest(request, token)
    \/ \E token \in Tokens, client_ip \in Keys : VerifyCall(token, client_ip)
    \/ \E outcome \in ProviderOutcomes : ProviderResponds(outcome)

SpecGate == InitGate /\ [][NextGate]_vars

\* The streaming endpoint end to end: admission, verification, and the session
\* of the request that was let through. A client sends its next request once
\* the session of its previous one is over.
EndpointScripts == {s \in Scripts : Len(s.items) <= 1}

EndpointRequest(request, token) ==
    /\ pc \in {"none", "done", "closed"}
    /\ StreamRequest(request, token)

InitEndpoint ==
    /\ RATE_LIMIT_REQUESTS \in 1..MaxLimit
    /\ RATE_LIMIT_WINDOW = DefaultWindow
    /\ RateDefaults
    /\ ERROR_STREAM = EnvUnset
    /\ script \in EndpointScripts
    /\ pc = "none"
    /\ frames = <<>>
    /\ idx = 0
    /\ pulls = 0
    /\ adapter = "none"
    /\ escaped = NoneVal
    /\ TURNSTILE_SECRET_KEY \in Secrets
    /\ GateDefaults
    /\ TaskDefaults
    /\ ModelDefaults
    /\ ConcDefaults

NextEndpoint ==
    \/ \E request \in Requests, token \in Tokens : EndpointRequest(request, token)
    \/ \E outcome \in ProviderOutcomes : ProviderResponds(outcome)
    \/ GenStart
    \/ GenResumeStart
    \/ GenPullItem
    \/ GenPullEnd
    \/ GenPullRaise
    \/ GenResumeEntity
    \/ GenFinish
    \/ GenClose

SpecEndpoint == InitEndpoint /\ [][NextEndpoint]_vars

\* The task registry: submissions from several clients, their background jobs
\* in any interleaving, and polls.
InitTasks ==
    /\ RATE_LIMIT_REQUESTS \in 1..MaxLimit
    /\ RATE_LIMIT_WINDOW = DefaultWindow
    /\ RateDefaults
    /\ StreamDefaults
    /\ TURNSTILE_SECRET_KEY = NoneVal
    /\ GateDefaults
    /\ TaskDefaults
    /\ ModelDefaults
    /\ ConcDefaults

NextTasks ==
    \/ \E request \in Requests : StartGenerateGraph(request)
    \/ \E task_id \in TaskIds : ProcessOpenaiCall(task_id)
    \/ \E task_id \in TaskIds : ProcessOpenaiReturn(task_id)
    \/ \E task_id \in TaskIds : ProcessOpenaiRaise(task_id)
    \/ \E task_id \in TaskIds : GetResult(task_id)

SpecTasks == InitTasks /\ [][NextTasks]_vars

\* The functions of models.py under every small AVAILABLE_MODELS value, and
\* under a test double for get_available_models.
InitModels ==
    /\ RATE_LIMIT_REQUESTS = 1
    /\ RATE_LIMIT_WINDOW = DefaultWindow
    /\ RateDefaults
    /\ StreamDefaults
    /\ TURNSTILE_SECRET_KEY = NoneVal
    /\ GateDefaults
    /\ TaskDefaults
    /\ \/ AVAILABLE_MODELS \in EnvValues /\ patched = NoPatch
       \/ AVAILABLE_MODELS = EnvUnset /\ patched \in Patches
    /\ call = NoCall
    /\ ConcDefaults

NextModels ==
    \/ CallGetAvailableModels
    \/ CallGetDefaultModel
    \/ \E model \in ModelArgs \ {NoneVal} : CallValidateModel(model)
    \/ \E preferred_model \in ModelArgs : CallGetBestAvailableModel(preferred_model)

SpecModels == InitModels /\ [][NextModels]_vars

\* Several requests in flight at once on the event loop, and the clock.
InitConcurrent ==
    /\ RATE_LIMIT_REQUESTS \in 1..MaxLimit
    /\ RATE_LIMIT_WINDOW = MaxWindow
    /\ RateDefaults
    /\ StreamDefaults
    /\ TURNSTILE_SECRET_KEY = NoneVal
    /\ GateDefaults
    /\ TaskDefaults
    /\ ModelDefaults
    /\ ConcDefaults

NextConcurrent ==
    \/ \E slot \in TaskSlots, request \in Requests : Arrive(slot, request)
    \/ \E slot \in TaskSlots : RunTask(slot)
    \/ \E d \in {1, RATE_LIMIT_WINDOW} : Tick(d)

SpecConcurrent == InitConcurrent /\ [][NextConcurrent]_vars

\* One list-mode streaming session over every adapter script.
InitUsers ==
    /\ RATE_LIMIT_REQUESTS = 1
    /\ RATE_LIMIT_WINDOW = DefaultWindow
    /\ RateDefaults
    /\ ERROR_STREAM = EnvUnset
    /\ script \in Scripts
    /\ pc = "u_init"
    /\ frames = <<>>
    /\ idx = 0
    /\ pulls = 0
    /\ adapter = "none"
    /\ escaped = NoneVal
    /\ TURNSTILE_SECRET_KEY = NoneVal
    /\ GateDefaults
    /\ TaskDefaults
    /\ ModelDefaults
    /\ ConcDefaults

NextUsers ==
    \/ UsersStart
    \/ UsersPullItem
    \/ UsersPullEnd
    \/ UsersPullRaise
    \/ UsersResume
    \/ UsersClose

SpecUsers == InitUsers /\ [][NextUsers]_vars

\* Every endpoint of the service, called by several clients.
InitShared ==
    /\ RATE_LIMIT_REQUESTS \in 1..MaxLimit
    /\ RATE_LIMIT_WINDOW = MaxWindow
    /\ RateDefaults
    /\ StreamDefaults
    /\ TURNSTILE_SECRET_KEY = NoneVal
    /\ GateDefaults
    /\ TaskDefaults
    /\ ModelDefaults
    /\ ConcDefaults

\* One request to each of the endpoints that keep state of their own, any
\* number to the others, and one passing of the window.
SharedStreamRequest(request) ==
    /\ served = 0
    /\ StreamRequest(request, NoneVal)

SharedStartGenerateGraph(request) ==
    /\ Issued = {}
    /\ StartGenerateGraph(request)

\* A poll of the first task id, before or after it was issued.
SharedGetResult == GetResult(1)

\* The window passes once.
SharedTick ==
    /\ ticks = 0
    /\ Tick(RATE_LIMIT_WINDOW)

NextShared ==
    \/ \E request \in Requests : GenerateGraph(request)
    \/ \E request \in Requests : SharedStreamRequest(request)
    \/ \E request \in Requests : StreamUsers(request)
    \/ \E request \in Requests : SharedStartGenerateGraph(request)
    \/ \E request \in Requests : RateLimitTest(request)
    \/ SharedGetResult
    \/ Home
    \/ SharedTick

SpecShared == InitShared /\ [][NextShared]_vars

\* ================================================================ claims

\* ---------------------------------------------------------------- C1
\* C1: for every client key and every limit L >= 1, among the admission checks
\* made for that key inside the window that began when its entry was created
\* (no entry before), each of the first L is accepted and the (L+1)th is
\* rejected.
C1_FirstLAcceptedThenRejected ==
    \A k \in Keys : \A i \in 1..Len(checks[k].log) :
        /\ i <= RATE_LIMIT_REQUESTS => checks[k].log[i] = "Accept"
        /\ i = RATE_LIMIT_REQUESTS + 1 => checks[k].log[i] = "Reject"

\* A key with L >= 2 whose window holds L accepted checks spread over time and
\* then a rejected one.
C1_Witness ==
    \E k \in Keys :
        /\ RATE_LIMIT_REQUESTS >= 2
        /\ Len(checks[k].log) = RATE_LIMIT_REQUESTS + 1
        /\ checks[k].log[RATE_LIMIT_REQUESTS + 1] = "Reject"
        /\ checks[k].last > checks[k].start

C3_AcceptedAfterQuietWindow ==
    (lastCheck.rested /\ lastCheck.prevCount >= RATE_LIMIT_REQUESTS) =>
        /\ lastCheck.verdict = "Accept"
        /\ lastCheck.after = 1

\* An exhausted client came back after a quiet window and was accepted.
C3_Witness ==
    /\ lastCheck.rested
    /\ lastCheck.prevCount = RATE_LIMIT_REQUESTS
    /\ lastCheck.verdict = "Accept"
    /\ lastCheck.after = 1

\* ---------------------------------------------------------------- C4
\* C4: every rejected admission check is an HTTP 429 whose retry_after and
\* whose Retry-After header, read as a decimal number, both equal the window
\* W; with limit 2 and window 60, three checks of one client inside the window
\* give Accept, Accept, Reject with retry_after 60.
C4_RejectIs429WithWindow ==
    /\ lastCheck.verdict = "Reject" =>
          /\ lastCheck.response.status = StatusTooMany
          /\ lastCheck.response.retry_after = RATE_LIMIT_WINDOW
          /\ StrToInt(lastCheck.response.header) = RATE_LIMIT_WINDOW
    /\ lastCheck.verdict = "Accept" => lastCheck.response = NoResponse
    /\ (RATE_LIMIT_REQUESTS = 2 /\ RATE_LIMIT_WINDOW = DefaultWindow) =>
          \A k \in Keys :
              Len(checks[k].log) = 3 =>
                  /\ checks[k].log = <<"Accept", "Accept", "Reject">>
                  /\ (checks[k].last = now /\ lastCheck.verdict = "Reject") =>
                         lastCheck.response.retry_after = DefaultWindow

\* limit 2, window 60: the third check of a client, within 5 seconds of its
\* first, has just been rejected with retry_after 60 and Retry-After "60".
C4_Witness ==
    /\ RATE_LIMIT_REQUESTS = 2
    /\ RATE_LIMIT_WINDOW = DefaultWindow
    /\ now <= 5
    /\ lastCheck.verdict = "Reject"
    /\ lastCheck.response.retry_after = 60
    /\ lastCheck.response.header = <<"6", "0">>
    /\ \E k \in Keys : /\ checks[k].log = <<"Accept", "Accept", "Reject">>
                       /\ checks[k].last = now

\* ---------------------------------------------------------------- C5
RECURSIVE EntityFrames(_)
\* The Entity frames of a sequence of items, one per item that is not None.
EntityFrames(items) ==
    IF items = <<>> THEN <<>>
    ELSE IF Head(items) = NoneItem THEN EntityFrames(Tail(items))
    ELSE <<EntityFrame(Head(items))>> \o EntityFrames(Tail(items))

\* C5 as claimed: once the adapter's finite sequence has ended without error,
\* the finished session has written Start, then one Entity frame per produced
\* item in order, then Complete, and nothing else.
C5_OneEntityFramePerItem ==
    (adapter = "ended" /\ pc = "done") =>
        frames = <<StartFrame>>
                 \o [j \in 1..Len(script.items) |-> EntityFrame(script.items[j])]
                 \o <<CompleteFrame>>

\* C5 amended: once the adapter's finite sequence has ended without error, the
\* session has written exactly one Start frame first, then one Entity frame
\* per produced item that is not None (a None item gets no frame), in the
\* order produced, then exactly one Complete frame, and it writes nothing
\* after the Complete frame.
C5_OneEntityFramePerEntity ==
    adapter = "ended" =>
        /\ frames = <<StartFrame>> \o EntityFrames(script.items) \o <<CompleteFrame>>
        /\ pc \in {"yield_complete", "done", "closed"}
        /\ escaped = NoneVal

\* A finished session whose adapter yielded a node, a None and an edge, then
\* ended.
C5_Witness ==
    /\ adapter = "ended"
    /\ pc = "done"
    /\ Len(script.items) = 3
    /\ script.items[1].type = "node"
    /\ script.items[2] = NoneItem
    /\ script.items[3].type = "edge"
    /\ Len(frames) = 4

\* ---------------------------------------------------------------- C6
\* C6: for every k >= 0, if the adapter raises after producing k entities
\* (also before the first), the session has written Start, exactly those k
\* Entity frames, then exactly one Error frame and nothing else, no exception
\* leaves the generator, and the failing pull is the last pull ever issued.
C6_ErrorAfterKEntities ==
    adapter = "raised" =>
        /\ frames = <<StartFrame>> \o EntityFrames(script.items) \o <<ErrorFrame>>
        /\ pulls = Len(script.items) + 1
        /\ escaped = NoneVal
        /\ pc \in {"yield_error", "done", "closed"}

\* A finished session whose adapter raised a plain exception after two
\* entities.
C6_Witness ==
    /\ adapter = "raised"
    /\ script.ending = "Exception"
    /\ pc = "done"
    /\ Len(EntityFrames(script.items)) = 2
    /\ Len(frames) = 4

\* ---------------------------------------------------------------- C7
\* C7: in every reachable state of a session, whatever the adapter and the
\* ERROR_STREAM setting do, the frames written so far are a prefix of
\* Start, Entity*, (Complete | Error): the first frame and only the first is
\* Start, a terminal frame is the last frame written (so there is at most one
\* and Complete and Error never both occur), and once it is written the
\* generator only finishes.
C7_FramesFollowGrammar ==
    /\ \A j \in 1..Len(frames) :
          /\ IsStart(frames[j]) <=> j = 1
          /\ IsStart(frames[j]) \/ IsEntity(frames[j]) \/ IsTerminal(frames[j])
          /\ IsTerminal(frames[j]) => j = Len(frames)
    /\ (frames # <<>> /\ IsTerminal(frames[Len(frames)])) =>
          pc \in {"yield_complete", "yield_error", "done", "closed"}

\* A session that the debug failure at index 1 ended: Start, one Entity, Error,
\* generator finished.
C7_Witness ==
    /\ ERROR_STREAM = IntToStr(1)
    /\ pc = "done"
    /\ Len(frames) = 3
    /\ IsEntity(frames[2])
    /\ IsError(frames[3])

\* ---------------------------------------------------------------- C8
\* C8: the Start frame is written before the adapter is created or pulled, so
\* it is the first frame even when the adapter fails on its very first pull.
C8_StartBeforeAdapter ==
    /\ (adapter # "none" \/ pulls > 0) =>
          (Len(frames) >= 1 /\ frames[1] = StartFrame)
    /\ (adapter = "raised" /\ script.items = <<>>) =>
          frames = <<StartFrame, ErrorFrame>>

\* The adapter failed on the first pull and the client has Start, Error.
C8_Witness ==
    /\ adapter = "raised"
    /\ script.items = <<>>
    /\ pulls = 1
    /\ frames = <<StartFrame, ErrorFrame>>

\* ---------------------------------------------------------------- C9
\* C9: with no provider secret configured (unset or empty) the gate returns
\* true for every token, an absent one included, no POST is ever sent to the
\* provider, and a streaming request that passed admission (with or without a
\* token) is answered with the stream.
C9_OpenWhenUnconfigured ==
    ~Truthy(TURNSTILE_SECRET_KEY) =>
        /\ outbound = 0
        /\ gate.state \in {"idle", "returned"}
        /\ gate.state = "returned" => (gate.result /\ gate.calls = 0)
        /\ hpc # "verifying"
        /\ (hpc = "done" /\ http.status # StatusTooMany) =>
              (http.status = StatusOK /\ pc = "init")

\* Without a secret: the gate, called with no token, returned true, and a
\* request without a token got its stream.
C9_Witness ==
    /\ ~Truthy(TURNSTILE_SECRET_KEY)
    /\ gate.state = "returned"
    /\ gate.caller = "direct"
    /\ gate.token = NoneVal
    /\ gate.result
    /\ hpc = "done"
    /\ http.token = NoneVal
    /\ http.status = StatusOK
    /\ outbound = 0

\* ---------------------------------------------------------------- C10
\* C10: with a secret configured and a token present, an invocation of the
\* gate sends exactly one POST; it returns true only when the provider reports
\* success, false on a transport failure, a timeout, an unparseable or
\* malformed response and a reported failure; no exception leaves the gate.
C10_GateCollapsesToBoolean ==
    (Truthy(TURNSTILE_SECRET_KEY) /\ Truthy(gate.token) /\ gate.state # "idle") =>
        /\ gate.calls = 1
        /\ outbound >= 1
        /\ gate.state \in {"awaiting", "returned"}
        /\ gate.state = "returned" =>
              /\ gate.outcome \in ProviderOutcomes
              /\ gate.result <=> (gate.outcome = "success_true")

\* The handler's gate call got an unparseable response: the gate returned
\* false and the request was answered 400.
C10_Witness ==
    /\ Truthy(TURNSTILE_SECRET_KEY)
    /\ gate.state = "returned"
    /\ gate.caller = "handler"
    /\ gate.token = "token"
    /\ gate.outcome = "unparseable"
    /\ ~gate.result
    /\ gate.calls = 1
    /\ http.status = StatusBadRequest

\* ---------------------------------------------------------------- C11
\* C11: with a provider secret configured, a streaming request that reaches
\* the handler without a token (absent or empty) is answered 400 "Security
\* verification required"; its handler never invokes the gate, no POST is sent
\* for it, and no session is created.
C11_MissingTokenRefused ==
    /\ (Truthy(TURNSTILE_SECRET_KEY) /\ hpc = "done" /\ ~Truthy(http.token)
        /\ http.status # StatusTooMany) =>
          /\ http.status = StatusBadRequest
          /\ http.error = "Security verification required"
          /\ ~http.gated
          /\ http.posts = 0
          /\ pc = "none"
    /\ hpc = "verifying" => Truthy(http.token)

\* A secret is configured; a request with an empty token was refused with 400
\* and the provider has never been called.
C11_Witness ==
    /\ Truthy(TURNSTILE_SECRET_KEY)
    /\ hpc = "done"
    /\ http.token = ""
    /\ http.status = StatusBadRequest
    /\ ~http.gated
    /\ outbound = 0

\* ---------------------------------------------------------------- C12
\* C12: a streaming request answered 429 by the admission controller or 400 by
\* the verification step (missing or invalid token), and one still waiting for
\* the provider, has caused no generation work: no session exists, no Start
\* frame was produced, and the adapter was neither created nor pulled.
C12_RejectedDoesNoWork ==
    ((hpc = "done" /\ http.status \in {StatusTooMany, StatusBadRequest})
     \/ hpc = "verifying") =>
        /\ pc = "none"
        /\ frames = <<>>
        /\ adapter = "none"
        /\ pulls = 0

\* A first request streamed frames to its end; the same endpoint then refused
\* a later request with 429, and nothing was generated for it.
C12_Witness ==
    /\ hpc = "done"
    /\ http.status = StatusTooMany
    /\ served >= 2
    /\ \E k \in Keys : checks[k].count >= 1
    /\ frames = <<>>
    /\ adapter = "none"

\* The verification step refused a request carrying a token the provider
\* rejected, and nothing was generated for it.
C12_WitnessInvalidToken ==
    /\ hpc = "done"
    /\ http.status = StatusBadRequest
    /\ http.gated
    /\ http.posts = 1
    /\ pc = "none"
    /\ frames = <<>>

\* ---------------------------------------------------------------- C13
\* C13: for every submitted task, under every interleaving of jobs and polls:
\* a poll issued while the job is scheduled or awaiting the generation call
\* returns "Processing..."; a poll issued after the job finished successfully
\* returns that job's own response; in every state after the job finished its
\* entry is present and holds that response (it never reverts), and the entry
\* of a task id is written at most once.
C13_PollFollowsJob ==
    /\ lastPoll.state \in {"scheduled", "awaiting"} =>
          lastPoll.value = Processing
    /\ lastPoll.state = "done" =>
          lastPoll.value = Response(lastPoll.task_id)
    /\ \A id \in TaskIds :
          /\ jobs[id].writes <= 1
          /\ jobs[id].state = "done" =>
                id \in DOMAIN results /\ results[id] = Response(id)
          /\ id \in DOMAIN results => jobs[id].state = "done"

\* Two jobs run concurrently and the later-submitted one finished first: a
\* poll of it returned its response while the earlier one is still awaited.
C13_Witness ==
    \E a, b \in TaskIds :
        /\ a < b
        /\ jobs[a].state = "awaiting"
        /\ jobs[b].state = "done"
        /\ lastPoll.task_id = b
        /\ lastPoll.state = "done"
        /\ lastPoll.value = Response(b)

\* ---------------------------------------------------------------- C14
\* C14 (as stated): when the generation call of a background job raises, the
\* registry holds a terminal entry for that task id, a poll issued after the
\* failure does not return "Processing...", and the exception does not leave
\* the job.
C14_FailureRecorded ==
    /\ \A id \in TaskIds :
          jobs[id].state = "raised" =>
              id \in DOMAIN results /\ ~jobs[id].raised
    /\ lastPoll.state = "raised" => lastPoll.value # Processing

\* ---------------------------------------------------------------- C15
\* C15: after every sequence of admission checks and clock advances, and for
\* every client key, rate_limit_storage.get(key, 0) is >= 0, and it is 0 when
\* the key has no entry or the timer has reached the entry's expiry.
C15_PeekNeverStale ==
    \A k \in Keys :
        LET current_usage == CacheGet(rate_limit_storage, k, now, 0)
        IN  /\ current_usage >= 0
            /\ k \notin DOMAIN rate_limit_storage => current_usage = 0
            /\ (k \in DOMAIN rate_limit_storage
                /\ now >= rate_limit_storage[k].expires) => current_usage = 0

\* An entry with a positive count is still physically stored exactly at its
\* expiry instant, another key has no entry, and both read as 0.
C15_Witness ==
    \E k, j \in Keys :
        /\ k \in DOMAIN rate_limit_storage
        /\ rate_limit_storage[k].count >= 1
        /\ now = rate_limit_storage[k].expires
        /\ CacheGet(rate_limit_storage, k, now, 0) = 0
        /\ j \notin DOMAIN rate_limit_storage
        /\ CacheGet(rate_limit_storage, j, now, 0) = 0

\* ---------------------------------------------------------------- C16
\* The entries of an AVAILABLE_MODELS value, read off its positions: position
\* i names a model when it holds a member of ALL_MODELS and everything else
\* between the commas around it is blank.
SameEntry(s, i, j) ==
    \A x \in DOMAIN s : (x >= i /\ x <= j) \/ (x >= j /\ x <= i) => s[x] # Comma
NamedAt(s) ==
    { i \in DOMAIN s :
          /\ s[i] \in Range(ALL_MODELS)
          /\ \A j \in DOMAIN s \ {i} : SameEntry(s, i, j) => s[j] = Space }
RECURSIVE InOrder(_, _)
InOrder(s, at) ==
    IF at = {} THEN <<>>
    ELSE LET i == CHOOSE x \in at : \A y \in at : x <= y
         IN  <<s[i]>> \o InOrder(s, at \ {i})

\* C16: get_available_models returns ALL_MODELS when AVAILABLE_MODELS is
\* unset, empty or names no member of ALL_MODELS; otherwise it returns exactly
\* the comma-separated entries that after trimming are members of ALL_MODELS
\* (case-sensitively), in their order in the variable, duplicates kept, empty
\* and unknown entries dropped.
C16_AvailableModelsParsed ==
    (call.fn = "get_available_models" /\ ~patched.active) =>
        LET s == IF AVAILABLE_MODELS = EnvUnset THEN <<>> ELSE AVAILABLE_MODELS
            named == InOrder(s, NamedAt(s))
        IN  call.list = IF named = <<>> THEN ALL_MODELS ELSE named

\* The value " gpt-4.1-2025-04-14,": the blank is trimmed, the empty entry
\* after the comma is dropped, and the one named model is returned.
C16_Witness ==
    /\ call.fn = "get_available_models"
    /\ AVAILABLE_MODELS = <<Space, "gpt-4.1-2025-04-14", Comma>>
    /\ call.list = <<"gpt-4.1-2025-04-14">>

\* ---------------------------------------------------------------- C17
\* C17: get_default_model returns the first model of MODEL_PRIORITY that is
\* in the available-model list, whatever the order of that list; when no
\* available model appears in MODEL_PRIORITY it returns the first available
\* model.
C17_DefaultIsHighestPriority ==
    call.fn = "get_default_model" =>
        LET av == call.available
            ranked == { i \in 1..Len(MODEL_PRIORITY) :
                            \E j \in 1..Len(av) : av[j] = MODEL_PRIORITY[i] }
        IN  /\ av # <<>>
            /\ ranked # {} =>
                  \E i \in ranked :
                      /\ call.model = MODEL_PRIORITY[i]
                      /\ \A j \in ranked : i <= j
            /\ ranked = {} => call.model = av[1]

\* The available list names the lower-priority model first, and the default
\* is still the higher-priority one.
C17_Witness ==
    /\ call.fn = "get_default_model"
    /\ call.available = <<"gpt-4o-mini-2024-07-18", "gpt-4.1-2025-04-14">>
    /\ call.model = "gpt-4.1-2025-04-14"

\* No available model is in MODEL_PRIORITY, and the default is the first
\* available one.
C17_WitnessFallback ==
    /\ call.fn = "get_default_model"
    /\ call.available = <<"some-other-model">>
    /\ call.model = "some-other-model"

\* ---------------------------------------------------------------- C18
\* C18: get_best_available_model(p) returns p when p is non-empty and in the
\* available-model list, and otherwise (p unavailable, None or "") what
\* get_default_model returns; validate_model of the returned model is true.
C18_BestIsPreferredOrDefault ==
    call.fn = "get_best_available_model" =>
        LET p == call.arg
            listed == \E j \in 1..Len(call.available) : call.available[j] = p
        IN  /\ (p # NoneVal /\ p # "" /\ listed) => call.model = p
            /\ (p = NoneVal \/ p = "" \/ ~listed) => call.model = get_default_model
            /\ call.valid

\* A known model that the configuration does not list was preferred; the
\* default of the configured list was returned instead, and it validates.
C18_Witness ==
    /\ call.fn = "get_best_available_model"
    /\ call.arg = "gpt-3.5-turbo-0125"
    /\ AVAILABLE_MODELS = <<"gpt-4o-mini-2024-07-18">>
    /\ call.model = "gpt-4o-mini-2024-07-18"
    /\ call.valid

\* ---------------------------------------------------------------- C19
\* C19 (as stated): ALL_MODELS is exactly the ordered list of eight models
\* gpt-4o-mini-2024-07-18, gpt-4.1-mini-2025-04-14, gpt-3.5-turbo-0125,
\* gpt-3.5-turbo-16k-0613, o4-mini-2025-04-16, o3-2025-04-16,
\* gpt-4.1-2025-04-14, gpt-4o-2024-08-06; so get_available_models returns
\* that list when AVAILABLE_MODELS is unset.
C19_EightModels ==
    (call.fn = "get_available_models" /\ AVAILABLE_MODELS = EnvUnset
     /\ ~patched.active) =>
        call.list = << "gpt-4o-mini-2024-07-18",
                       "gpt-4.1-mini-2025-04-14",
                       "gpt-3.5-turbo-0125",
                       "gpt-3.5-turbo-16k-0613",
                       "o4-mini-2025-04-16",
                       "o3-2025-04-16",
                       "gpt-4.1-2025-04-14",
                       "gpt-4o-2024-08-06" >>

\* ---------------------------------------------------------------- C20
\* C20 (as stated): a client's entry expires W seconds after the accepted
\* check that created it with count 1; later increments inside the same
\* window raise the count and leave the expiry where it was.
C20_ExpiryFixedAtWindowStart ==
    \A k \in Keys :
        Live(rate_limit_storage, k, now) =>
            rate_limit_storage[k].expires = checks[k].start + RATE_LIMIT_WINDOW

\* ---------------------------------------------------------------- C21
\* C21: under every interleaving of concurrent admission checks (tasks
\* interleave only at suspension points), no increment is lost: for every key
\* with a live entry the stored count equals the number of checks accepted
\* since the entry was created, and that number never exceeds the limit L.
C21_NoLostIncrement ==
    \A k \in Keys :
        Live(rate_limit_storage, k, now) =>
            /\ rate_limit_storage[k].count = accepted[k]
            /\ accepted[k] <= RATE_LIMIT_REQUESTS

\* Three requests of one client were in flight together; two have run and
\* were accepted, the third has run and was rejected, all in one window.
C21_Witness ==
    /\ RATE_LIMIT_REQUESTS = 2
    /\ now = 0
    /\ \E k \in Keys :
          /\ \A slot \in TaskSlots : tasks[slot].key = k /\ tasks[slot].pc = "done"
          /\ Cardinality({slot \in TaskSlots : tasks[slot].verdict = "Accept"}) = 2
          /\ tasks[1].verdict = "Reject"
          /\ rate_limit_storage[k].count = 2

\* ---------------------------------------------------------------- C22
\* C22 (as stated): in graph mode and in list mode alike, once the adapter has
\* raised while being drained, no exception has left the session generator,
\* and the frames end with the one Error frame of the session.
C22_FailureBecomesErrorFrame ==
    adapter = "raised" =>
        /\ escaped = NoneVal
        /\ frames # <<>>
        /\ IsError(frames[Len(frames)])
        /\ Cardinality({ j \in 1..Len(frames) : IsError(frames[j]) }) = 1

\* ---------------------------------------------------------------- C23
\* The frames written for the items whose discriminator is node or edge.
ValidEntityFrames(items) ==
    LET valid == SelectSeq(items, LAMBDA it : it.type \in {"node", "edge"})
    IN  [j \in 1..Len(valid) |-> EntityFrame(valid[j])]

\* C23 (as stated): an item that is not a valid entity kind (None, or a
\* discriminator other than node/edge) produces no frame and draining goes on:
\* when the adapter has ended and the session is over, the Entity frames are
\* exactly those of the node and edge items, in order, between the Start frame
\* and the Complete frame.
C23_UnclassifiableSkipped ==
    (adapter = "ended" /\ pc = "done") =>
        frames = <<StartFrame>> \o ValidEntityFrames(script.items)
                     \o <<CompleteFrame>>

\* ---------------------------------------------------------------- C24
\* C24 (as stated): submission records an entry for the fresh task id, and a
\* poll tells three cases apart: an id never issued is answered differently
\* from a submitted unfinished task ("Processing..."), and a finished task is
\* answered with its result.
C24_SubmitRecordsPending ==
    /\ \A id \in TaskIds :
          jobs[id].state \in {"scheduled", "awaiting"} => id \in DOMAIN results
    /\ (lastPoll.task_id \in TaskIds /\ lastPoll.state = "none") =>
          lastPoll.value # Processing
    /\ lastPoll.state = "done" => lastPoll.value = Response(lastPoll.task_id)

\* ---------------------------------------------------------------- C25
\* C25: within one graph session pulls and writes strictly alternate. There
\* is never more than one pull beyond the items already dealt with; while a
\* pull is outstanding every entity pulled before it has been written; and
\* while an Entity frame is being written it is the frame of the item just
\* pulled and no further pull has been issued.
C25_PullWriteAlternate ==
    /\ pulls <= idx + 1
    /\ pc = "pulling" =>
          /\ pulls = idx + 1
          /\ SelectSeq(frames, IsEntity) = EntityFrames(SubSeq(script.items, 1, idx))
    /\ pc = "yield_entity" =>
          /\ pulls = idx + 1
          /\ frames[Len(frames)] = EntityFrame(script.items[idx + 1])
          /\ SelectSeq(frames, IsEntity) =
                EntityFrames(SubSeq(script.items, 1, idx + 1))

\* The third pull is outstanding and the two entities pulled before it have
\* both been written.
C25_Witness ==
    /\ pc = "pulling"
    /\ pulls = 3
    /\ idx = 2
    /\ Len(SelectSeq(frames, IsEntity)) = 2

\* ---------------------------------------------------------------- C26
\* C26: when the client disconnects mid-stream (the generator is closed or
\* cancelled at a suspension point), the step that closes the session writes
\* no frame, not even an Error frame, and issues no pull, and a closed session
\* stays closed: no later step pulls from the adapter or writes a frame.
C26_CloseStopsSession ==
    [][(pc' = "closed") =>
          /\ frames' = frames
          /\ pulls' = pulls
          /\ idx' = idx
          /\ adapter' = adapter
          /\ escaped' = escaped]_vars
    /\ [][(pc = "closed") => (pc' = "closed")]_vars

\* The session was closed while its first Entity frame was being written: two
\* of the adapter's three items were never pulled.
C26_Witness ==
    /\ pc = "closed"
    /\ Len(script.items) = 3
    /\ Len(frames) = 2
    /\ IsEntity(frames[2])
    /\ pulls = 1
    /\ adapter = "created"

\* ---------------------------------------------------------------- C27
\* C27: whatever exception ended the drain (a validation failure, any other
\* exception of the adapter, or the debug failure), the Error frame written is
\* the one fixed record {result: "error", status: "error"}: sessions that
\* differ only in the exception write the same frames, so nothing about the
\* exception reaches the client.
C27_ErrorFrameIsGeneric ==
    \A j \in 1..Len(frames) :
        (IsError(frames[j]) \/ (j = Len(frames) /\ pc = "yield_error")) =>
            frames[j] = [status |-> "error",
                         result |-> [type |-> "error", id |-> 0]]

\* The adapter failed with an exception that is not a validation failure,
\* after one entity, and the generic Error frame was written.
C27_Witness ==
    /\ adapter = "raised"
    /\ script.ending = "Exception"
    /\ Len(frames) = 3
    /\ IsEntity(frames[2])
    /\ frames[3] = ErrorFrame

\* ---------------------------------------------------------------- C28
\* C28: in every reachable state, every client entry that is live holds a
\* count between 1 and the limit L inclusive: no sequence of admission checks,
\* accepted or rejected, and clock advances drives a count above L.
C28_CountWithinLimit ==
    \A k \in Keys :
        Live(rate_limit_storage, k, now) =>
            /\ rate_limit_storage[k].count >= 1
            /\ rate_limit_storage[k].count <= RATE_LIMIT_REQUESTS

\* A client at its limit of 2 was just rejected, and its live count is still 2.
C28_Witness ==
    /\ RATE_LIMIT_REQUESTS = 2
    /\ lastCheck.verdict = "Reject"
    /\ \E k \in Keys :
          /\ Live(rate_limit_storage, k, now)
          /\ rate_limit_storage[k].count = 2
          /\ Len(checks[k].log) = 3

\* ---------------------------------------------------------------- C29
\* C29: on the streaming graph endpoint the admission check runs, and counts,
\* before verification: a request answered 400 (token missing or invalid) was
\* accepted by the admission check and raised its client's count by one, and
\* a request answered 429 found the count at the limit, whatever the earlier
\* requests of that client were answered.
C29_RefusedRequestsConsumeQuota ==
    /\ (hpc = "done" /\ http.status = StatusBadRequest) =>
          /\ lastCheck.verdict = "Accept"
          /\ lastCheck.mutated
          /\ lastCheck.after = lastCheck.before + 1
    /\ (hpc = "done" /\ http.status = StatusTooMany) =>
          /\ lastCheck.verdict = "Reject"
          /\ lastCheck.before >= RATE_LIMIT_REQUESTS

\* With a secret configured and L = 2, a client sent three requests without a
\* usable token and no POST was ever made: the first two were answered 400 and
\* used up the quota, the third was answered 429.
C29_Witness ==
    /\ Truthy(TURNSTILE_SECRET_KEY)
    /\ RATE_LIMIT_REQUESTS = 2
    /\ outbound = 0
    /\ gate = NoGate
    /\ hpc = "done"
    /\ http.status = StatusTooMany
    /\ \E k \in Keys : checks[k].log = <<"Accept", "Accept", "Reject">>

\* ---------------------------------------------------------------- C30
AcceptsIn(log) == Cardinality({ j \in 1..Len(log) : log[j] = "Accept" })

\* C30: generate-graph, stream-generate-graph, stream-users,
\* start-generate-graph and rate-limit-test all run the one admission check on
\* the one counter of the client's key: within one window at most L requests
\* of a client are accepted across all of them, each accepted request raising
\* the shared count by one and each rejected one finding it at L; polling a
\* task and the home endpoint run no admission check, and no step of theirs
\* changes the counter.
C30_OneCounterForAllEndpoints ==
    /\ [](/\ \A k \in Keys : AcceptsIn(checks[k].log) <= RATE_LIMIT_REQUESTS
          /\ lastRequest.endpoint \in
                { "generate-graph", "stream-generate-graph", "stream-users",
                  "start-generate-graph", "rate-limit-test" } =>
                /\ lastRequest.limited
                /\ lastCheck.verdict \in {"Accept", "Reject"}
                /\ lastCheck.verdict = "Accept" =>
                      lastCheck.after = lastCheck.before + 1
                /\ lastCheck.verdict = "Reject" =>
                      lastCheck.before >= RATE_LIMIT_REQUESTS
          /\ lastRequest.endpoint \in {"graph/{task_id}", "home"} =>
                ~lastRequest.limited)
    /\ [][lastRequest'.endpoint \in {"graph/{task_id}", "home"} =>
             UNCHANGED <<rate_limit_storage, checks, lastCheck>>]_vars

\* With L = 2 one client, the only one seen so far, had a background job and a
\* list-mode stream accepted, and its request to rate-limit-test in the same
\* window was then rejected.
C30_Witness ==
    /\ RATE_LIMIT_REQUESTS = 2
    /\ now = 0
    /\ jobs[1].state = "scheduled"
    /\ pc = "u_init"
    /\ lastRequest.endpoint = "rate-limit-test"
    /\ lastCheck.verdict = "Reject"
    /\ \E k \in Keys :
          /\ DOMAIN rate_limit_storage = {k}
          /\ checks[k].log = <<"Accept", "Accept", "Reject">>
====
